---- MODULE Spec2Model ----
(***************************************************************************)
(* Model of rag_pipeline/src/vectorstores/faiss_vectorstore.py: the        *)
(* Fais_VS vector store (build, search, retrieval, save and load).         *)
(*                                                                         *)
(* Numbers: embeddings are small integer vectors (exact in float32).  An   *)
(* L2-normalised vector is kept in fixed point, in units of 1/FixedPoint.  *)
(* Python's None is the empty tuple, a set value x is the 1-tuple <<x>>.   *)
(* A numpy array is a record [shape, flat] (row-major).  A dict is a       *)
(* function whose DOMAIN is its key set.                                   *)
(***************************************************************************)
EXTENDS Integers, Sequences, FiniteSets, TLC

\* ------------------------------------------------------------ bounds
MaxTopK == 2
MaxCalls == 4
MaxSetupCalls == 3
MaxListLen == 3
FixedPoint == 10

\* ------------------------------------------------------------ values
None == <<>>
Some(x) == <<x>>
IsNone(o) == o = <<>>
Val(o) == o[1]

Range(s) == {s[i] : i \in DOMAIN s}

RECURSIVE SumSeq(_)
SumSeq(s) == IF s = <<>> THEN 0 ELSE Head(s) + SumSeq(Tail(s))

RECURSIVE ProdSeq(_)
ProdSeq(s) == IF s = <<>> THEN 1 ELSE Head(s) * ProdSeq(Tail(s))

RECURSIVE Concat(_)
Concat(ss) == IF ss = <<>> THEN <<>> ELSE Head(ss) \o Concat(Tail(ss))

Take(s, n) == SubSeq(s, 1, IF n < Len(s) THEN n ELSE Len(s))

\* Python's str(i) for the row ids in use.
StrOf(i) == <<"0", "1", "2", "3", "4", "5">>[i + 1]

EmptyDict == [x \in {} |-> 0]

\* langchain Document(page_content, metadata)
Document(content, md) == [page_content |-> content, metadata |-> md]

SourceMeta(s) == [key \in {"source"} |-> s]

\* The document batches handed to the two builders.
Corpora ==
    { << Document("cat", SourceMeta("pets")), Document("dog", EmptyDict) >>,
      << Document("car", SourceMeta("cars")) >> }

\* ------------------------------------------------------------ embedder
\* The embedding provider is an external collaborator: the store holds a
\* reference to it (Model) and each call of batch_embed answers in one of
\* these ways.
\*   "Good"   one vector of length 2 per text
\*   "Nested" one 1 x 2 matrix per text (a 3-D batch)
\*   "Raises" batch_embed raises
Model == "model"
Answers == {"Good", "Nested", "Raises"}

TextVector(t) ==
    CASE t = "cat" -> <<2, 1>>
      [] t = "dog" -> <<0, 2>>
      [] t = "car" -> <<2, 0>>
      [] t = "feline pet" -> <<1, 0>>
      [] OTHER -> <<1, 1>>

\* embedder.batch_embed(texts) followed by np.array(...).astype("float32"),
\* for the answer e of the provider
BatchEmbed(e, texts) ==
    LET flat == Concat([i \in 1..Len(texts) |-> TextVector(texts[i])])
    IN  IF e = "Nested"
        THEN [shape |-> <<Len(texts), 1, 2>>, flat |-> flat]
        ELSE [shape |-> <<Len(texts), 2>>, flat |-> flat]

\* if embeddings.ndim == 1: embeddings = embeddings.reshape(1, -1)
Ensure2D(a) ==
    IF Len(a.shape) = 1 THEN [shape |-> <<1, a.shape[1]>>, flat |-> a.flat]
    ELSE a

\* Row r (1-based) of a 2-D array.
Row(a, r) == SubSeq(a.flat, (r - 1) * a.shape[2] + 1, r * a.shape[2])

Rows(a) == [r \in 1..a.shape[1] |-> Row(a, r)]

\* ------------------------------------------------------------ faiss
RECURSIVE ISqrtFrom(_, _)
ISqrtFrom(n, r) == IF (r + 1) * (r + 1) > n THEN r ELSE ISqrtFrom(n, r + 1)
ISqrt(n) == ISqrtFrom(n, 0)

SumSq(v) == SumSeq([i \in 1..Len(v) |-> v[i] * v[i]])

\* faiss.normalize_L2 on one row: a zero row is left as it is.
NormalizeRow(v) ==
    IF SumSq(v) = 0 THEN v
    ELSE [i \in 1..Len(v) |->
            (v[i] * FixedPoint * FixedPoint) \div ISqrt(SumSq(v) * FixedPoint * FixedPoint)]

\* faiss.normalize_L2(embeddings), in place on a 2-D array
NormalizeL2(a) ==
    [shape |-> a.shape,
     flat |-> Concat([r \in 1..a.shape[1] |-> NormalizeRow(Row(a, r))])]

\* faiss.IndexFlatIP(d): an empty flat inner-product index
IndexFlatIP(d) == [d |-> d, xb |-> <<>>]

\* index.add(x) accepts a 2-D array whose rows have length index.d
AddAccepts(idx, a) == Len(a.shape) = 2 /\ a.shape[2] = idx.d

IndexAdd(idx, a) == [d |-> idx.d, xb |-> idx.xb \o Rows(a)]

NTotal(idx) == Len(idx.xb)

InnerProduct(u, v) == SumSeq([i \in 1..Len(u) |-> u[i] * v[i]])

\* The scores of the stored rows against q, by row (1-based).
Scores(idx, q) == [r \in 1..NTotal(idx) |-> InnerProduct(idx.xb[r], q)]

\* Row i is reported before row j: the higher score, and of two equal
\* scores the lower row id.
Better(scores, i, j) ==
    scores[i] > scores[j] \/ (scores[i] = scores[j] /\ i < j)

\* The rows of `left` by descending score.
RECURSIVE Ranked(_, _)
Ranked(scores, left) ==
    IF left = {} THEN <<>>
    ELSE LET best == CHOOSE i \in left : \A j \in left \ {i} : Better(scores, i, j)
         IN  <<best>> \o Ranked(scores, left \ {best})

\* index.search(q, k) for one query row: k (row id, score) pairs by
\* descending inner product, padded with the sentinel row id -1.  Row ids
\* are 0-based.
IndexSearch(idx, q, k) ==
    LET scores == Scores(idx, q)
        order == Ranked(scores, 1..NTotal(idx))
    IN  [p \in 1..k |->
            IF p <= Len(order)
            THEN [id |-> order[p] - 1, score |-> scores[order[p]]]
            ELSE [id |-> -1, score |-> -1000000]]

\* faiss.write_index: d, ntotal and the vectors as one flat code array
WriteIndex(idx) ==
    [d |-> idx.d, ntotal |-> NTotal(idx), codes |-> Concat(idx.xb)]

\* faiss.read_index
ReadIndex(f) ==
    [d |-> f.d,
     xb |-> [r \in 1..f.ntotal |-> SubSeq(f.codes, (r - 1) * f.d + 1, r * f.d)]]

\* ------------------------------------------------------------ store
Instances == {1, 2}
Paths == {"kb"}

VARIABLES store, disk, calls, last
vars == <<store, disk, calls, last>>

\* Fais_VS.__init__
NewStore(embedder_model) ==
    [index |-> None,
     chunks_dict |-> None,
     dimension |-> None,
     total_vectors |-> 0,
     index_type |-> "IndexFlatIP",
     embedder_model |-> embedder_model,
     enable_reranking |-> TRUE,
     docstore |-> None,
     index_to_docstore_id |-> None,
     documents |-> None]

\* What a call leaves behind for the claims to read: the operation, the
\* instance, how it ended (the exception class and its message, or "ok"),
\* the call's arguments and its result.
Call(op, i, outcome, message) ==
    [op |-> op, inst |-> i, outcome |-> outcome, message |-> message,
     docs |-> <<>>, top_k |-> 0, query |-> None, accepted |-> FALSE,
     searched |-> FALSE, candidates |-> <<>>, reranked |-> <<>>, result |-> <<>>,
     path |-> "", named |-> {}, initial_k |-> None]

Texts(documents) == [i \in 1..Len(documents) |-> documents[i].page_content]

\* (ChunksDict with the rows numbered from 1, enumerate(texts, 1))
ChunksDictFromOne(texts) == [i \in 1..Len(texts) |-> texts[i]]

\* {i: text for i, text in enumerate(texts)}
ChunksDict(texts) == [i \in 0..(Len(texts) - 1) |-> texts[i + 1]]

\* {str(i): doc for i, doc in enumerate(docs)}
Docstore(docs) ==
    [key \in {StrOf(i) : i \in 0..(Len(docs) - 1)} |->
        docs[(CHOOSE i \in 0..(Len(docs) - 1) : StrOf(i) = key) + 1]]

\* {i: str(i) for i in range(len(docs))}
IndexToDocstoreId(docs) == [i \in 0..(Len(docs) - 1) |-> StrOf(i)]

\* create_vector_store(documents, embedder_model): the instance after the
\* call and how the call ended.
CreateVectorStoreCall(s, documents, embedder_model, answer) ==
    LET s1 == IF ~IsNone(embedder_model)
              THEN [s EXCEPT !.embedder_model = embedder_model] ELSE s
        texts == Texts(documents)
        embeddings == Ensure2D(BatchEmbed(answer, texts))
        s2 == [s1 EXCEPT !.dimension = Some(embeddings.shape[2]),
                         !.index = Some(IndexFlatIP(embeddings.shape[2]))]
        added == IndexAdd(Val(s2.index), embeddings)
    IN  IF IsNone(s1.embedder_model)
        THEN [store |-> s1, outcome |-> "ValueError",
              message |-> "Embedder model is required"]
        ELSE IF answer = "Raises"
        THEN [store |-> s1, outcome |-> "EmbedderError", message |-> "batch_embed"]
        ELSE IF ~AddAccepts(Val(s2.index), embeddings)
        THEN [store |-> s2, outcome |-> "AddError", message |-> "index.add"]
        ELSE [store |-> [s2 EXCEPT !.index = Some(added),
                                   !.chunks_dict = Some(ChunksDict(texts)),
                                   !.total_vectors = NTotal(added)],
              outcome |-> "ok", message |-> ""]

\* create_vectorstore(docs, normalize_embeddings)
CreateVectorstoreCall(s, docs, normalize_embeddings, answer) ==
    LET texts == Texts(docs)
        embeddings == Ensure2D(BatchEmbed(answer, texts))
        s2 == [s EXCEPT !.dimension = Some(embeddings.shape[2]),
                        !.index = Some(IndexFlatIP(embeddings.shape[2]))]
        normalized == IF normalize_embeddings THEN NormalizeL2(embeddings)
                      ELSE embeddings
        added == IndexAdd(Val(s2.index), normalized)
    IN  IF IsNone(s.embedder_model)
        THEN [store |-> s, outcome |-> "ValueError",
              message |-> "Embedder model is required"]
        ELSE IF answer = "Raises"
        THEN [store |-> s, outcome |-> "EmbedderError", message |-> "batch_embed"]
        ELSE IF ~AddAccepts(Val(s2.index), embeddings)
        THEN [store |-> s2, outcome |-> "AddError", message |-> "index.add"]
        ELSE [store |-> [s2 EXCEPT !.index = Some(added),
                                   !.documents = Some(docs),
                                   !.docstore = Some(Docstore(docs)),
                                   !.index_to_docstore_id = Some(IndexToDocstoreId(docs)),
                                   !.chunks_dict = Some(ChunksDict(texts)),
                                   !.total_vectors = NTotal(added)],
              outcome |-> "ok", message |-> ""]

\* ------------------------------------------------------------ search
\* np.array(query_embedding) shaped as the two search paths shape it:
\* one row when ndim is 1 or above 2, unchanged when ndim is 2.
ShapeQuery(a) ==
    IF Len(a.shape) = 2 THEN a
    ELSE [shape |-> <<1, ProdSeq(a.shape)>>, flat |-> a.flat]

\* (DimensionMatches with the row count compared in place of the row length)
DimensionMatchesRowCount(s, a) == s.dimension = Some(ShapeQuery(a).shape[1])

\* The check both paths make before searching:
\* query_embedding.shape[1] != self.dimension raises ValueError.
DimensionMatches(s, a) == s.dimension = Some(ShapeQuery(a).shape[2])

\* distances, indices = self.index.search(query_embedding, top_k): faiss
\* itself refuses a query whose row length is not the index's d.
FaissAccepts(idx, a) == ShapeQuery(a).shape[2] = idx.d

\* The rows of the first query row, as (row id, score) pairs.
Neighbours(s, a, top_k) == IndexSearch(Val(s.index), Row(ShapeQuery(a), 1), top_k)

\* (EnhancedMetadata with the two values written under each other's key)
EnhancedMetadataSwapped(md, similarity, faiss_idx) ==
    [key \in DOMAIN md \cup {"similarity", "retrieval_index"} |->
        CASE key = "similarity" -> faiss_idx
          [] key = "retrieval_index" -> similarity
          [] OTHER -> md[key]]

\* enhanced_metadata = doc.metadata.copy() if doc.metadata else {} with
\* "similarity" and "retrieval_index" set on the copy.
EnhancedMetadata(md, similarity, faiss_idx) ==
    [key \in DOMAIN md \cup {"similarity", "retrieval_index"} |->
        CASE key = "similarity" -> similarity
          [] key = "retrieval_index" -> faiss_idx
          [] OTHER -> md[key]]

\* (StoredMetadata with enhanced_metadata = doc.metadata in place of the
\* copy: the writes land on the stored document's own dict)
StoredMetadataAliased(md, similarity, faiss_idx) ==
    IF md # EmptyDict THEN EnhancedMetadata(md, similarity, faiss_idx) ELSE md

\* The stored document's metadata once the loop has set "similarity" and
\* "retrieval_index": enhanced_metadata is doc.metadata.copy(), or a new
\* dict when doc.metadata is empty, so the stored dict keeps what it held.
StoredMetadata(md, similarity, faiss_idx) == md

\* (SelectSeq2 keeping every entry: no row is skipped)
SelectAll(s, keep) == s

RECURSIVE SelectSeq2(_, _)
SelectSeq2(s, keep) ==
    IF s = <<>> THEN <<>>
    ELSE (IF keep[1] THEN <<Head(s)>> ELSE <<>>)
         \o SelectSeq2(Tail(s), Tail(keep))

\* _search_with_docstore(query_embedding, top_k)
SearchWithDocstoreCall(s, a, top_k) ==
    LET nb == Neighbours(s, a, top_k)
        real == {i \in 1..top_k : nb[i].id # -1}
        resolves(i) ==
            /\ nb[i].id # -1
            /\ nb[i].id \in DOMAIN Val(s.index_to_docstore_id)
            /\ Val(s.index_to_docstore_id)[nb[i].id] \in DOMAIN Val(s.docstore)
        doc(i) == Val(s.docstore)[Val(s.index_to_docstore_id)[nb[i].id]]
        enhanced(i) ==
            Document(doc(i).page_content,
                     EnhancedMetadata(doc(i).metadata, nb[i].score, nb[i].id))
        hits(key) == {i \in 1..top_k :
                         resolves(i) /\ Val(s.index_to_docstore_id)[nb[i].id] = key}
        stored(key) ==
            IF hits(key) = {} THEN Val(s.docstore)[key]
            ELSE LET i == CHOOSE j \in hits(key) : TRUE
                 IN  Document(doc(i).page_content,
                              StoredMetadata(doc(i).metadata, nb[i].score, nb[i].id))
        none == [accepted |-> FALSE, searched |-> FALSE, result |-> <<>>,
                 docstore |-> s.docstore]
    IN  IF ~DimensionMatches(s, a)
        THEN none @@ [outcome |-> "ValueError",
                      message |-> "Query embedding dimension doesn't match index dimension"]
        ELSE IF IsNone(s.index)
        THEN [none EXCEPT !.accepted = TRUE]
                 @@ [outcome |-> "AttributeError", message |-> "search"]
        ELSE IF ~FaissAccepts(Val(s.index), a)
        THEN [none EXCEPT !.accepted = TRUE]
                 @@ [outcome |-> "AssertionError", message |-> "faiss search"]
        ELSE IF real # {} /\ (IsNone(s.index_to_docstore_id) \/ IsNone(s.docstore))
        THEN [accepted |-> TRUE, searched |-> TRUE, result |-> <<>>,
              docstore |-> s.docstore,
              outcome |-> "TypeError", message |-> "argument of type 'NoneType' is not iterable"]
        ELSE [accepted |-> TRUE, searched |-> TRUE,
              result |-> SelectSeq2([i \in 1..top_k |-> IF resolves(i) THEN enhanced(i) ELSE nb[i]],
                                    [i \in 1..top_k |-> resolves(i)]),
              docstore |-> IF IsNone(s.docstore) THEN s.docstore
                           ELSE Some([key \in DOMAIN Val(s.docstore) |-> stored(key)]),
              outcome |-> "ok", message |-> ""]

\* _search_chunks(query_embedding, top_k)
SearchChunksCall(s, a, top_k) ==
    LET nb == Neighbours(s, a, top_k)
        real == {i \in 1..top_k : nb[i].id # -1}
        keeps(i) == nb[i].id # -1 /\ nb[i].id < Cardinality(DOMAIN Val(s.chunks_dict))
        formatted(i) ==
            [chunk_id |-> nb[i].id, text |-> Val(s.chunks_dict)[nb[i].id],
             distance |-> nb[i].score, similarity |-> nb[i].score]
        none == [accepted |-> FALSE, searched |-> FALSE, result |-> <<>>]
    IN  IF ~DimensionMatches(s, a)
        THEN none @@ [outcome |-> "ValueError",
                      message |-> "Query embedding dimension doesn't match index dimension"]
        ELSE IF IsNone(s.index)
        THEN [none EXCEPT !.accepted = TRUE]
                 @@ [outcome |-> "AttributeError", message |-> "search"]
        ELSE IF ~FaissAccepts(Val(s.index), a)
        THEN [none EXCEPT !.accepted = TRUE]
                 @@ [outcome |-> "AssertionError", message |-> "faiss search"]
        ELSE IF real # {} /\ IsNone(s.chunks_dict)
        THEN [accepted |-> TRUE, searched |-> TRUE, result |-> <<>>,
              outcome |-> "TypeError", message |-> "object of type 'NoneType' has no len()"]
        ELSE [accepted |-> TRUE, searched |-> TRUE,
              result |-> SelectSeq2([i \in 1..top_k |-> IF keeps(i) THEN formatted(i) ELSE nb[i]],
                                    [i \in 1..top_k |-> keeps(i)]),
              outcome |-> "ok", message |-> ""]

\* ------------------------------------------------------------ retrieval
\* The parameters _search_with_docstore and _search_chunks declare
\* (def _search_with_docstore(self, query_embedding, top_k=5)).
SearchParameters == {"query_embedding", "top_k"}

\* The keyword get_relevant_documents passes to them, and its value
\* (self._search_with_docstore(query_embedding, initial_k=5)).
SearchKeyword == "initial_k"
InitialK == 5

\* Python binds a keyword argument only to a declared parameter; any
\* other keyword raises TypeError before the callee's body runs.
KeywordBinds(keyword, parameters) == keyword \in parameters

\* The query embedding of a str query: embed_query(query), or
\* batch_embed([query]) unwrapped to its first element.
QueryEmbedding(e, query) ==
    IF e = "Nested" THEN [shape |-> <<1, 2>>, flat |-> TextVector(query)]
    ELSE [shape |-> <<2>>, flat |-> TextVector(query)]

\* Document(page_content=res['text'], metadata={"similarity": res['similarity']})
ChunkDocument(res) ==
    Document(res.text, [key \in {"similarity"} |-> res.similarity])

\* The reranker is an external collaborator: it may reorder or drop
\* candidates and does not invent documents.
RerankChoices == {"keep", "reverse", "drop_last"}

Reverse(s) == [i \in 1..Len(s) |-> s[Len(s) + 1 - i]]

Rerank(choice, candidates) ==
    CASE choice = "reverse" -> Reverse(candidates)
      [] choice = "drop_last" /\ candidates # <<>> ->
            SubSeq(candidates, 1, Len(candidates) - 1)
      [] OTHER -> candidates

\* for doc in candidates: if doc.metadata: doc.metadata["reranked"] = True
TagReranked(doc) ==
    IF doc.metadata # EmptyDict
    THEN Document(doc.page_content,
                  [key \in DOMAIN doc.metadata \cup {"reranked"} |->
                      IF key = "reranked" THEN TRUE ELSE doc.metadata[key]])
    ELSE doc

\* candidates[:top_k], Python's slice: a negative top_k counts from the end.
SliceTo(candidates, top_k) ==
    LET n == Len(candidates)
        stop == IF top_k >= 0 THEN (IF top_k < n THEN top_k ELSE n)
                ELSE (IF n + top_k > 0 THEN n + top_k ELSE 0)
    IN  SubSeq(candidates, 1, stop)

\* get_relevant_documents from the rerank step's output on: tag every
\* candidate, then truncate.
TagAndTruncate(reranked, top_k) ==
    SliceTo([i \in 1..Len(reranked) |-> TagReranked(reranked[i])], top_k)

\* get_relevant_documents(query, top_k) for a str query
GetRelevantDocumentsCall(s, query, top_k, answer, choice) ==
    LET query_embedding == QueryEmbedding(answer, query)
        found == IF ~IsNone(s.docstore)
                 THEN SearchWithDocstoreCall(s, query_embedding, InitialK)
                 ELSE SearchChunksCall(s, query_embedding, InitialK)
        candidates == IF ~IsNone(s.docstore) THEN found.result
                      ELSE [i \in 1..Len(found.result) |-> ChunkDocument(found.result[i])]
        reranked == Rerank(choice, candidates)
        none == [accepted |-> FALSE, searched |-> FALSE, candidates |-> <<>>,
                 reranked |-> <<>>, result |-> <<>>, docstore |-> s.docstore,
                 initial_k |-> None]
    IN  IF IsNone(s.embedder_model)
        THEN none @@ [outcome |-> "AttributeError",
                      message |-> "'NoneType' object has no attribute 'batch_embed'"]
        ELSE IF answer = "Raises"
        THEN none @@ [outcome |-> "EmbedderError", message |-> "batch_embed"]
        ELSE IF ~KeywordBinds(SearchKeyword, SearchParameters)
        THEN [none EXCEPT !.initial_k = Some(InitialK)]
                 @@ [outcome |-> "TypeError",
                     message |-> "got an unexpected keyword argument 'initial_k'"]
        ELSE IF found.outcome # "ok"
        THEN [none EXCEPT !.initial_k = Some(InitialK)]
                 @@ [outcome |-> found.outcome, message |-> found.message]
        ELSE [accepted |-> TRUE, searched |-> TRUE, candidates |-> candidates,
              reranked |-> reranked, result |-> TagAndTruncate(reranked, top_k),
              docstore |-> IF ~IsNone(s.docstore) THEN found.docstore ELSE s.docstore,
              initial_k |-> Some(InitialK),
              outcome |-> "ok", message |-> ""]

\* ------------------------------------------------------------ persistence
FaissFile(p) == p \o ".faiss"
MetadataFile(p) == p \o "_metadata.pkl"

\* The metadata dict save_index pickles.
Metadata(s) ==
    [chunks_dict |-> s.chunks_dict,
     dimension |-> s.dimension,
     total_vectors |-> s.total_vectors,
     index_type |-> s.index_type,
     docstore |-> s.docstore,
     index_to_docstore_id |-> s.index_to_docstore_id,
     documents |-> s.documents,
     enable_reranking |-> s.enable_reranking]

\* The build an instance holds: its index and what save_index records of it.
Build(s) == [index |-> s.index, metadata |-> Metadata(s)]

\* pickle.dump / pickle.load of the metadata file; a dump that was cut
\* short leaves a file pickle.load cannot read.
PickleDump(obj) == [readable |-> TRUE, obj |-> Some(obj)]
PickleCut == [readable |-> FALSE, obj |-> None]
PickleLoad(blob) == Val(blob.obj)

\* (SaveIndexCall opening the index file for writing before it looks for
\* an index)
SaveIndexCallOpensFirst(s, files, how) ==
    LET stamp == Build(s)
        written == [files EXCEPT
                      !.faiss = Some([bytes |-> WriteIndex(Val(s.index)), of |-> stamp])]
    IN  IF IsNone(s.index)
        THEN [files |-> [files EXCEPT !.faiss = None],
              outcome |-> "ValueError", message |-> "No index to save"]
        ELSE IF how = "after_index"
        THEN [files |-> written, outcome |-> "Interrupted", message |-> "after index"]
        ELSE IF how = "in_metadata"
        THEN [files |-> [written EXCEPT !.meta = Some([blob |-> PickleCut, of |-> stamp])],
              outcome |-> "Interrupted", message |-> "in metadata"]
        ELSE [files |-> [written EXCEPT
                           !.meta = Some([blob |-> PickleDump(Metadata(s)), of |-> stamp])],
              outcome |-> "ok", message |-> ""]

\* save_index(file_path) on the files under one prefix.  how says where
\* the call ends: "complete", "after_index" (stopped between the two
\* writes) or "in_metadata" (stopped inside pickle.dump, after open(..,'wb')
\* truncated the file).  Each file written carries, besides its
\* content, the build it was written from (of: the saving instance's index
\* and metadata), which no operation reads.
SaveIndexCall(s, files, how) ==
    LET stamp == Build(s)
        written == [files EXCEPT
                      !.faiss = Some([bytes |-> WriteIndex(Val(s.index)), of |-> stamp])]
    IN  IF IsNone(s.index)
        THEN [files |-> files, outcome |-> "ValueError", message |-> "No index to save"]
        ELSE IF how = "after_index"
        THEN [files |-> written, outcome |-> "Interrupted", message |-> "after index"]
        ELSE IF how = "in_metadata"
        THEN [files |-> [written EXCEPT !.meta = Some([blob |-> PickleCut, of |-> stamp])],
              outcome |-> "Interrupted", message |-> "in metadata"]
        ELSE [files |-> [written EXCEPT
                           !.meta = Some([blob |-> PickleDump(Metadata(s)), of |-> stamp])],
              outcome |-> "ok", message |-> ""]

\* (LoadIndexCall with the restore of dimension and total_vectors left out)
LoadIndexCallIndexOnly(s, p, files, embedder_model) ==
    LET s1 == [s EXCEPT !.index = Some(ReadIndex(Val(files.faiss).bytes))]
        metadata == PickleLoad(Val(files.meta).blob)
        s2 == [s1 EXCEPT !.chunks_dict = metadata.chunks_dict,
                         !.index_type = metadata.index_type]
        s3 == IF ~IsNone(embedder_model)
              THEN [s2 EXCEPT !.embedder_model = embedder_model] ELSE s2
    IN  IF IsNone(files.faiss)
        THEN [store |-> s, outcome |-> "FileNotFoundError",
              message |-> "Index file not found", named |-> {FaissFile(p)}]
        ELSE IF IsNone(files.meta)
        THEN [store |-> s, outcome |-> "FileNotFoundError",
              message |-> "Metadata file not found", named |-> {MetadataFile(p)}]
        ELSE IF ~Val(files.meta).blob.readable
        THEN [store |-> s1, outcome |-> "UnpicklingError",
              message |-> "pickle.load", named |-> {}]
        ELSE [store |-> s3, outcome |-> "ok", message |-> "", named |-> {}]

\* load_index(file_path, embedder_model)
LoadIndexCall(s, p, files, embedder_model) ==
    LET s1 == [s EXCEPT !.index = Some(ReadIndex(Val(files.faiss).bytes))]
        metadata == PickleLoad(Val(files.meta).blob)
        s2 == [s1 EXCEPT !.chunks_dict = metadata.chunks_dict,
                         !.dimension = metadata.dimension,
                         !.total_vectors = metadata.total_vectors,
                         !.index_type = metadata.index_type]
        s3 == IF ~IsNone(embedder_model)
              THEN [s2 EXCEPT !.embedder_model = embedder_model] ELSE s2
    IN  IF IsNone(files.faiss)
        THEN [store |-> s, outcome |-> "FileNotFoundError",
              message |-> "Index file not found", named |-> {FaissFile(p)}]
        ELSE IF IsNone(files.meta)
        THEN [store |-> s, outcome |-> "FileNotFoundError",
              message |-> "Metadata file not found", named |-> {MetadataFile(p)}]
        ELSE IF ~Val(files.meta).blob.readable
        THEN [store |-> s1, outcome |-> "UnpicklingError",
              message |-> "pickle.load", named |-> {}]
        ELSE [store |-> s3, outcome |-> "ok", message |-> "", named |-> {}]

Init ==
    /\ store = [i \in Instances |-> NewStore(None)]
    /\ disk = [p \in Paths |-> [faiss |-> None, meta |-> None]]
    /\ calls = 0
    /\ last = Call("init", 1, "ok", "")

SetEmbedderModel(i, embedder_model) ==
    /\ store' = [store EXCEPT ![i].embedder_model = embedder_model]
    /\ last' = Call("set_embedder_model", i, "ok", "")
    /\ UNCHANGED disk

CreateVectorStore(i, documents, embedder_model, answer) ==
    LET r == CreateVectorStoreCall(store[i], documents, embedder_model, answer)
    IN  /\ store' = [store EXCEPT ![i] = r.store]
        /\ last' = [Call("create_vector_store", i, r.outcome, r.message)
                        EXCEPT !.docs = documents]
        /\ UNCHANGED disk

CreateVectorstore(i, docs, normalize_embeddings, answer) ==
    LET r == CreateVectorstoreCall(store[i], docs, normalize_embeddings, answer)
    IN  /\ store' = [store EXCEPT ![i] = r.store]
        /\ last' = [Call("create_vectorstore", i, r.outcome, r.message)
                        EXCEPT !.docs = docs]
        /\ UNCHANGED disk

SaveIndex(i, p, how) ==
    LET r == SaveIndexCall(store[i], disk[p], how)
    IN  /\ disk' = [disk EXCEPT ![p] = r.files]
        /\ last' = [Call("save_index", i, r.outcome, r.message) EXCEPT !.path = p]
        /\ UNCHANGED store

LoadIndex(i, p, embedder_model) ==
    LET r == LoadIndexCall(store[i], p, disk[p], embedder_model)
    IN  /\ store' = [store EXCEPT ![i] = r.store]
        /\ last' = [Call("load_index", i, r.outcome, r.message)
                        EXCEPT !.path = p, !.named = r.named]
        /\ UNCHANGED disk

SearchWithDocstore(i, a, top_k) ==
    \E r \in {SearchWithDocstoreCall(store[i], a, top_k)} :
        /\ last' = [Call("_search_with_docstore", i, r.outcome, r.message)
                        EXCEPT !.query = Some(a), !.top_k = top_k,
                               !.accepted = r.accepted, !.searched = r.searched,
                               !.result = r.result]
        /\ store' = [store EXCEPT ![i].docstore = r.docstore]
        /\ UNCHANGED disk

SearchChunks(i, a, top_k) ==
    \E r \in {SearchChunksCall(store[i], a, top_k)} :
        /\ last' = [Call("_search_chunks", i, r.outcome, r.message)
                        EXCEPT !.query = Some(a), !.top_k = top_k,
                               !.accepted = r.accepted, !.searched = r.searched,
                               !.result = r.result]
        /\ UNCHANGED <<store, disk>>

GetRelevantDocuments(i, query, top_k, answer, choice) ==
    \E r \in {GetRelevantDocumentsCall(store[i], query, top_k, answer, choice)} :
        /\ last' = [Call("get_relevant_documents", i, r.outcome, r.message)
                        EXCEPT !.top_k = top_k, !.accepted = r.accepted,
                               !.searched = r.searched, !.candidates = r.candidates,
                               !.reranked = r.reranked, !.result = r.result,
                               !.initial_k = r.initial_k]
        /\ store' = [store EXCEPT ![i].docstore = r.docstore]
        /\ UNCHANGED disk

\* The query arrays handed to the two search paths: 1-D of length 2 and
\* 1, a 1 x 3 matrix and a 1 x 1 x 2 array.
Queries ==
    { [shape |-> <<2>>, flat |-> <<1, 0>>],
      [shape |-> <<1>>, flat |-> <<1>>],
      [shape |-> <<1, 3>>, flat |-> <<1, 0, 0>>],
      [shape |-> <<1, 1, 2>>, flat |-> <<0, 1>>] }

TopKs == {1, MaxTopK}

\* The top_k values asked of get_relevant_documents: those, and one above
\* the count its search step is written to ask for.
RetrievalTopKs == TopKs \cup {InitialK + 1}

\* A call that may change an instance or the disk counts against MaxCalls;
\* a search or a retrieval does not.
Changing == calls < MaxCalls /\ calls' = calls + 1
Reading == calls' = calls

\* The lifecycle: building, saving (completely or not) and loading.
Next ==
    \/ \E i \in Instances : SetEmbedderModel(i, Some(Model)) /\ Changing
    \/ \E i \in Instances, d \in Corpora, e \in {None, Some(Model)}, w \in Answers :
          CreateVectorStore(i, d, e, w) /\ Changing
    \/ \E i \in Instances, d \in Corpora, n \in BOOLEAN, w \in Answers :
          CreateVectorstore(i, d, n, w) /\ Changing
    \/ \E i \in Instances, p \in Paths, how \in {"complete", "after_index", "in_metadata"} :
          SaveIndex(i, p, how) /\ Changing
    \/ \E i \in Instances, p \in Paths, e \in {None, Some(Model)} :
          LoadIndex(i, p, e) /\ Changing

\* Searching and retrieving on the stores that building, saving and
\* loading produce.
Setup == calls < MaxSetupCalls /\ calls' = calls + 1

NextSearch ==
    \/ \E i \in Instances : SetEmbedderModel(i, Some(Model)) /\ Setup
    \/ \E i \in Instances, d \in Corpora, e \in {None, Some(Model)}, w \in Answers :
          CreateVectorStore(i, d, e, w) /\ Setup
    \/ \E i \in Instances, d \in Corpora, n \in BOOLEAN, w \in Answers :
          CreateVectorstore(i, d, n, w) /\ Setup
    \/ \E i \in Instances, p \in Paths : SaveIndex(i, p, "complete") /\ Setup
    \/ \E i \in Instances, p \in Paths : LoadIndex(i, p, None) /\ Setup
    \/ Reading /\ \E i \in Instances, a \in Queries, k \in TopKs : SearchWithDocstore(i, a, k)
    \/ Reading /\ \E i \in Instances, a \in Queries, k \in TopKs : SearchChunks(i, a, k)
    \/ Reading /\ \E i \in Instances, k \in RetrievalTopKs, w \in Answers, c \in RerankChoices :
          GetRelevantDocuments(i, "feline pet", k, w, c)

\* get_relevant_documents from the reranker's output on, as a function of
\* that output and top_k.
RerankTail(reranked, top_k) ==
    /\ last' = [Call("rerank_tail", 1, "ok", "")
                    EXCEPT !.top_k = top_k, !.reranked = reranked,
                           !.result = TagAndTruncate(reranked, top_k)]
    /\ UNCHANGED <<store, disk, calls>>

\* What a reranker can hand back: candidates as the two search paths
\* build them, and documents it built itself, with or without metadata.
RerankedDocuments ==
    { Document("cat", EnhancedMetadata(SourceMeta("pets"), 2, 0)),
      ChunkDocument([text |-> "dog", similarity |-> 0]),
      Document("car", EmptyDict) }

RECURSIVE ListsUpTo(_, _)
ListsUpTo(S, n) ==
    IF n = 0 THEN {<<>>}
    ELSE LET shorter == ListsUpTo(S, n - 1)
         IN  shorter \cup {Append(l, x) : l \in {m \in shorter : Len(m) = n - 1}, x \in S}

NextTail ==
    \E reranked \in ListsUpTo(RerankedDocuments, MaxListLen), k \in (-1)..MaxTopK :
        RerankTail(reranked, k)

Spec == Init /\ [][Next]_vars

SpecSearch == Init /\ [][NextSearch]_vars

SpecTail == Init /\ [][NextTail]_vars

\* ------------------------------------------------------------ claims
Builders == {"create_vector_store", "create_vectorstore"}
SearchPaths == {"_search_with_docstore", "_search_chunks"}

\* Both files are there, the metadata can be read, and both were written
\* from one build.
PairIntact(files) ==
    /\ ~IsNone(files.faiss)
    /\ ~IsNone(files.meta)
    /\ Val(files.meta).blob.readable
    /\ Val(files.faiss).of = Val(files.meta).of

\* The last call was a load that succeeded on an intact pair.
LoadedIntact ==
    /\ last.op = "load_index"
    /\ last.outcome = "ok"
    /\ PairIntact(disk[last.path])

\* The build the loaded pair was saved from.
SavedBuild == Val(disk[last.path].faiss).of

QueryRows == {<<1, 0>>, <<0, 1>>, <<1, 1>>, <<1>>, <<0>>}

\* C1: after save_index(p) and load_index(p), the index, dimension,
\* total_vectors and index_type are those of the instance that saved, and
\* the index answers every query with the same row ids and scores in the
\* same order.
C1_RoundTrip ==
    LoadedIntact =>
        LET s == store[last.inst]
            b == SavedBuild
        IN  /\ s.index = b.index
            /\ s.dimension = b.metadata.dimension
            /\ s.total_vectors = b.metadata.total_vectors
            /\ s.index_type = b.metadata.index_type
            /\ \A q \in QueryRows, k \in TopKs :
                  Len(q) = Val(b.index).d =>
                      IndexSearch(Val(s.index), q, k) = IndexSearch(Val(b.index), q, k)

\* An enhanced store of two documents was saved and loaded into an
\* instance that never built one.
C1_Witness ==
    /\ LoadedIntact
    /\ NTotal(Val(store[last.inst].index)) = 2
    /\ ~IsNone(SavedBuild.metadata.docstore)
    /\ IsNone(store[last.inst].documents)

\* C2: load_index restores the document store in the mode that was saved:
\* docstore and index_to_docstore_id of the loaded instance are the saved
\* ones (both None for a chunk-mode store), whatever the instance held.
C2_ModeRestored ==
    LoadedIntact =>
        /\ store[last.inst].docstore = SavedBuild.metadata.docstore
        /\ store[last.inst].index_to_docstore_id = SavedBuild.metadata.index_to_docstore_id

\* The fields an ingestion is to replace or to leave alone as a whole.
Ingested(s) ==
    <<s.index, s.dimension, s.total_vectors, s.chunks_dict, s.docstore,
      s.index_to_docstore_id, s.documents>>

\* The index and the document store of s describe the batch docs; the
\* enhanced fields are None in a store built by create_vector_store.
Describes(s, op, docs) ==
    /\ ~IsNone(s.index)
    /\ NTotal(Val(s.index)) = Len(docs)
    /\ s.total_vectors = Len(docs)
    /\ s.chunks_dict = Some(ChunksDict(Texts(docs)))
    /\ s.docstore = IF op = "create_vectorstore" THEN Some(Docstore(docs)) ELSE None
    /\ s.index_to_docstore_id =
          IF op = "create_vectorstore" THEN Some(IndexToDocstoreId(docs)) ELSE None
    /\ s.documents = IF op = "create_vectorstore" THEN Some(docs) ELSE None

\* C3: a build that fails leaves index, dimension, total_vectors,
\* chunks_dict, docstore, index_to_docstore_id and documents as they were;
\* a build that succeeds leaves all of them describing the new batch.
C3_IngestionAtomic ==
    [][(last'.op \in Builders /\ calls' = calls + 1) =>
          IF last'.outcome = "ok"
          THEN Describes(store'[last'.inst], last'.op, last'.docs)
          ELSE Ingested(store'[last'.inst]) = Ingested(store[last'.inst])]_vars

\* C4: whenever an index file and a readable metadata file are found under
\* a prefix, they were written from the same build, also after a save that
\* stopped part-way.
C4_PairConsistent ==
    \A p \in Paths :
        (/\ ~IsNone(disk[p].faiss)
         /\ ~IsNone(disk[p].meta)
         /\ Val(disk[p].meta).blob.readable) =>
            Val(disk[p].faiss).of = Val(disk[p].meta).of

\* The row ids retrieval will resolve: those of index_to_docstore_id that
\* lead into docstore when docstore is set, otherwise those of chunks_dict.
RowIds(s) ==
    IF ~IsNone(s.docstore)
    THEN IF IsNone(s.index_to_docstore_id) THEN {}
         ELSE {i \in DOMAIN Val(s.index_to_docstore_id) :
                  Val(s.index_to_docstore_id)[i] \in DOMAIN Val(s.docstore)}
    ELSE IF IsNone(s.chunks_dict) THEN {} ELSE DOMAIN Val(s.chunks_dict)

Aligned(s) ==
    /\ ~IsNone(s.index)
    /\ s.total_vectors = NTotal(Val(s.index))
    /\ RowIds(s) = 0..(s.total_vectors - 1)

\* An instance on which nothing was built or loaded yet.
Unbuilt(s) == Ingested(s) = Ingested(NewStore(None))

\* C5: alignment of total_vectors, the index and the row ids of the
\* document store in use holds after every successful build or load in a
\* sequence of successful ones: a successful build on an unbuilt or aligned
\* instance, and a successful load of a pair saved from an aligned
\* instance, leave the instance aligned.
C5_Alignment ==
    [][(/\ calls' = calls + 1
        /\ last'.outcome = "ok"
        /\ Unbuilt(store[last'.inst]) \/ Aligned(store[last'.inst])
        /\ \/ last'.op \in Builders
           \/ /\ last'.op = "load_index"
              /\ PairIntact(disk[last'.path])
              /\ Aligned([store[last'.inst] EXCEPT
                     !.index = Val(disk[last'.path].faiss).of.index,
                     !.total_vectors = Val(disk[last'.path].faiss).of.metadata.total_vectors,
                     !.chunks_dict = Val(disk[last'.path].faiss).of.metadata.chunks_dict,
                     !.docstore = Val(disk[last'.path].faiss).of.metadata.docstore,
                     !.index_to_docstore_id =
                         Val(disk[last'.path].faiss).of.metadata.index_to_docstore_id]))
       => Aligned(store'[last'.inst])]_vars

\* A store on which a search with a query of length 2 goes through:
\* an embedder is set, and index, dimension and document store agree.
Retrievable(s) ==
    /\ ~IsNone(s.embedder_model)
    /\ Aligned(s)
    /\ s.dimension = Some(2)
    /\ Val(s.index).d = 2

Retrieved ==
    /\ last.op = "get_relevant_documents"
    /\ Retrievable(store[last.inst])
    /\ last.outcome # "EmbedderError"

\* C6: get_relevant_documents(query, top_k=k) returns at most k documents,
\* namely the first k of the reranker's output in its order, and all of
\* that output, without an error, when it has fewer than k entries.
C6_TopKBound ==
    Retrieved =>
        /\ last.outcome = "ok"
        /\ Len(last.result) <= last.top_k
        /\ last.result = Take(last.reranked, last.top_k)

\* C7: on a store built from n documents, with an embedder, a query
\* embedding of the index dimension, a reranker that keeps every candidate
\* and 1 <= k <= n, get_relevant_documents returns exactly k documents of
\* the built corpus and does not raise.
C7_RetrievalSucceeds ==
    (/\ Retrieved
     /\ Len(last.reranked) = Len(last.candidates)
     /\ 1 <= last.top_k
     /\ last.top_k <= store[last.inst].total_vectors) =>
        /\ last.outcome = "ok"
        /\ Len(last.result) = last.top_k
        /\ \A i \in DOMAIN last.result :
              last.result[i].page_content \in Range(Val(store[last.inst].chunks_dict))

\* C8: every document get_relevant_documents returns carries
\* metadata["reranked"] = True, whatever the reranker handed back.
C8_AllTagged ==
    last.op \in {"get_relevant_documents", "rerank_tail"} =>
        \A i \in DOMAIN last.result :
            /\ "reranked" \in DOMAIN last.result[i].metadata
            /\ last.result[i].metadata["reranked"] = TRUE

\* The length of the query of the last search once shaped to one row.
ShapedLength == ShapeQuery(Val(last.query)).shape[2]

\* C9: in both search paths a query whose shaped length differs from
\* dimension ends in the dimension-mismatch ValueError before the index is
\* searched, an accepted query has length dimension, and no field of any
\* store changes.
C9_DimensionChecked ==
    /\ [](last.op \in SearchPaths =>
            /\ store[last.inst].dimension # Some(ShapedLength) =>
                  (last.outcome = "ValueError" /\ ~last.accepted /\ ~last.searched)
            /\ last.accepted => store[last.inst].dimension = Some(ShapedLength))
    /\ [][last'.op \in SearchPaths /\ calls' = calls => store' = store]_vars

\* A query of another length was refused on a store that holds vectors,
\* by each of the two paths.
C9_WitnessDocstore ==
    /\ last.op = "_search_with_docstore"
    /\ last.outcome = "ValueError"
    /\ ~IsNone(store[last.inst].docstore)
    /\ NTotal(Val(store[last.inst].index)) > 0
    /\ store[last.inst].dimension # Some(ShapedLength)

\* The files of a prefix that are not there.
Missing(p) ==
    {f \in {FaissFile(p), MetadataFile(p)} :
        \/ f = FaissFile(p) /\ IsNone(disk[p].faiss)
        \/ f = MetadataFile(p) /\ IsNone(disk[p].meta)}

\* C10: a load_index that fails names every missing file and leaves the
\* instance (index, chunks_dict, dimension, total_vectors, index_type,
\* docstore, embedder) as it was.
C10_NoPartialLoad ==
    [][(last'.op = "load_index" /\ calls' = calls + 1 /\ last'.outcome # "ok") =>
          /\ last'.named = Missing(last'.path)
          /\ store'[last'.inst] = store[last'.inst]]_vars

\* C11: save_index on an instance that holds no index ends in the
\* ValueError "No index to save" and writes no file: the files under the
\* prefix, a pair saved earlier included, are as they were.
C11_NoIndexSave ==
    [][(/\ last'.op = "save_index"
        /\ calls' = calls + 1
        /\ IsNone(store[last'.inst].index)) =>
          /\ last'.outcome = "ValueError"
          /\ last'.message = "No index to save"
          /\ disk' = disk]_vars

\* An instance without an index was asked to save under a prefix that
\* holds an intact pair saved by another instance.
C11_Witness ==
    /\ last.op = "save_index"
    /\ last.outcome = "ValueError"
    /\ IsNone(store[last.inst].index)
    /\ PairIntact(disk[last.path])

NeedEmbedder == Builders \cup {"get_relevant_documents"}

\* C12: create_vector_store, create_vectorstore and get_relevant_documents
\* called while no embedder model is set (none held and none passed) end in
\* the configuration error, the ValueError "Embedder model is required",
\* and leave every field of every store as it was; a store restored by
\* load_index without an embedder is one such case.
C12_ConfigurationError ==
    [][(/\ last'.op \in NeedEmbedder
        /\ IsNone(store'[last'.inst].embedder_model)) =>
          /\ last'.outcome = "ValueError"
          /\ store' = store]_vars

Reads == SearchPaths \cup {"get_relevant_documents"}
ReadTimeFields == {"similarity", "retrieval_index", "reranked"}

\* The documents an instance keeps: those of docstore and of documents.
StoredDocuments(s) ==
    (IF IsNone(s.docstore) THEN {} ELSE Range(Val(s.docstore)))
        \cup (IF IsNone(s.documents) THEN {} ELSE Range(Val(s.documents)))

\* C13: get_relevant_documents and the two search paths it is made of
\* leave every field of the store as it was, and no stored document's
\* metadata ever holds similarity, retrieval_index or reranked (no document
\* of the corpora is stored with one of them): those are written to the
\* copies a query gets.
C13_ReadOnly ==
    /\ [][last'.op \in Reads /\ calls' = calls => store' = store]_vars
    /\ [](\A i \in Instances : \A d \in StoredDocuments(store[i]) :
             DOMAIN d.metadata \cap ReadTimeFields = {})

\* The enhanced path handed out a copy of a stored document that has
\* metadata of its own, with the read-time fields on the copy.
C13_Witness ==
    /\ last.op = "_search_with_docstore"
    /\ last.outcome = "ok"
    /\ \E i \in DOMAIN last.result :
          /\ {"source", "similarity", "retrieval_index"} \subseteq DOMAIN last.result[i].metadata
          /\ Document(last.result[i].page_content, SourceMeta(last.result[i].metadata["source"]))
                \in StoredDocuments(store[last.inst])

\* Resolving a row id as the two search paths do: self.chunks_dict[faiss_idx],
\* and self.docstore[self.index_to_docstore_id[faiss_idx]].
ResolveChunk(s, i) == Val(s.chunks_dict)[i]
ResolveDocstore(s, i) == Val(s.docstore)[Val(s.index_to_docstore_id)[i]]

Built == last.op \in Builders /\ last.outcome = "ok"

\* C14: right after a successful build from d0 .. dn-1, row id i resolves
\* to the content of di for every i in 0..n-1: through chunks_dict after
\* either builder, and through index_to_docstore_id and docstore, to di
\* itself, after create_vectorstore.
C14_RowIdStability ==
    Built =>
        LET s == store[last.inst]
            n == Len(last.docs)
        IN  /\ DOMAIN Val(s.chunks_dict) = 0..(n - 1)
            /\ \A i \in 0..(n - 1) : ResolveChunk(s, i) = last.docs[i + 1].page_content
            /\ last.op = "create_vectorstore" =>
                  /\ DOMAIN Val(s.index_to_docstore_id) = 0..(n - 1)
                  /\ \A i \in 0..(n - 1) :
                        /\ Val(s.index_to_docstore_id)[i] \in DOMAIN Val(s.docstore)
                        /\ ResolveDocstore(s, i) = last.docs[i + 1]

\* An enhanced store was built from two documents with different contents.
C14_Witness ==
    /\ Built
    /\ last.op = "create_vectorstore"
    /\ Len(last.docs) = 2
    /\ last.docs[1].page_content # last.docs[2].page_content
    /\ ResolveDocstore(store[last.inst], 1) = last.docs[2]

\* The search path get_relevant_documents hands the query to on s:
\* _search_with_docstore if self.docstore is not None, else _search_chunks.
Dispatch(s) ==
    IF ~IsNone(s.docstore) THEN "_search_with_docstore" ELSE "_search_chunks"

\* The texts of the most recent successful build or load: each of the three
\* assigns chunks_dict when it succeeds, and nothing else does.
CurrentTexts(s) == Val(s.chunks_dict)

\* C15: whatever builds and loads an instance has gone through, every
\* candidate of the search path retrieval uses on it has, for its row id i,
\* the i-th text of the most recent successful build or load.
C15_WholesaleReplacement ==
    (/\ last.op \in SearchPaths
     /\ last.op = Dispatch(store[last.inst])
     /\ last.outcome = "ok") =>
        \A j \in DOMAIN last.result :
            LET c == last.result[j]
            IN  IF last.op = "_search_with_docstore"
                THEN c.page_content = CurrentTexts(store[last.inst])[c.metadata["retrieval_index"]]
                ELSE c.text = CurrentTexts(store[last.inst])[c.chunk_id]

\* C16: the neighbour count get_relevant_documents passes to its search
\* step is at least the top_k it was asked for, for every top_k.
C16_OverFetch ==
    (last.op = "get_relevant_documents" /\ ~IsNone(last.initial_k)) =>
        Val(last.initial_k) >= last.top_k

\* The document store a search path reads is there.
PathStore(s, op) ==
    IF op = "_search_with_docstore"
    THEN ~IsNone(s.docstore) /\ ~IsNone(s.index_to_docstore_id)
    ELSE ~IsNone(s.chunks_dict)

\* Row id has an entry in the document store of the path.
HasEntry(s, op, id) ==
    IF op = "_search_with_docstore"
    THEN /\ id \in DOMAIN Val(s.index_to_docstore_id)
         /\ Val(s.index_to_docstore_id)[id] \in DOMAIN Val(s.docstore)
    ELSE id \in DOMAIN Val(s.chunks_dict)

\* What the index returned to the last search, and the positions of it
\* that hold a row id with an entry.
Returned == Neighbours(store[last.inst], Val(last.query), last.top_k)
Kept ==
    {p \in 1..last.top_k :
        Returned[p].id # -1 /\ HasEntry(store[last.inst], last.op, Returned[p].id)}
KeptAt(j) == CHOOSE p \in Kept : Cardinality({q \in Kept : q < p}) = j - 1

CandidateRow(c) ==
    IF last.op = "_search_with_docstore" THEN c.metadata["retrieval_index"] ELSE c.chunk_id
CandidateSimilarity(c) ==
    IF last.op = "_search_with_docstore" THEN c.metadata["similarity"] ELSE c.similarity
CandidateContent(c) ==
    IF last.op = "_search_with_docstore" THEN c.page_content ELSE c.text

\* C17: a search that reaches the index on a store whose document store is
\* there returns without raising; its list has one candidate per returned
\* row id that is not the sentinel and has an entry, in the order the index
\* returned them (descending score), each with that row's id, content and
\* score as similarity; sentinel rows and rows without an entry are left out.
C17_SkipsSilently ==
    (/\ last.op \in SearchPaths
     /\ last.searched
     /\ PathStore(store[last.inst], last.op)) =>
        /\ last.outcome = "ok"
        /\ Len(last.result) = Cardinality(Kept)
        /\ \A j \in DOMAIN last.result :
              LET c == last.result[j]
                  r == Returned[KeptAt(j)]
              IN  /\ CandidateRow(c) = r.id
                  /\ CandidateSimilarity(c) = r.score
                  /\ CandidateContent(c) =
                        IF last.op = "_search_with_docstore"
                        THEN ResolveDocstore(store[last.inst], r.id).page_content
                        ELSE ResolveChunk(store[last.inst], r.id)
        /\ \A j, k \in DOMAIN last.result :
              j < k => CandidateSimilarity(last.result[j]) >= CandidateSimilarity(last.result[k])

\* The enhanced path was asked for two neighbours of an index of two rows
\* of which one has no entry in the docstore, and returned the other.
C17_Witness ==
    /\ last.op = "_search_with_docstore"
    /\ last.outcome = "ok"
    /\ last.top_k = 2
    /\ NTotal(Val(store[last.inst].index)) = 2
    /\ Cardinality(Kept) = 1
    /\ Len(last.result) = 1

\* The chunk path was asked for more neighbours than the index holds.
C17_WitnessSentinel ==
    /\ last.op = "_search_chunks"
    /\ last.outcome = "ok"
    /\ last.top_k > NTotal(Val(store[last.inst].index))
    /\ \E p \in 1..last.top_k : Returned[p].id = -1
    /\ Len(last.result) = 1

\* Store b holds, in its docstore, the texts store a holds in chunks_dict,
\* row by row, over the same index (the same embeddings) and dimension.
SameCorpus(a, b) ==
    /\ ~IsNone(a.index) /\ a.index = b.index /\ a.dimension = b.dimension
    /\ ~IsNone(a.chunks_dict)
    /\ PathStore(b, "_search_with_docstore")
    /\ DOMAIN Val(b.index_to_docstore_id) = DOMAIN Val(a.chunks_dict)
    /\ \A i \in DOMAIN Val(a.chunks_dict) :
          /\ HasEntry(b, "_search_with_docstore", i)
          /\ ResolveDocstore(b, i).page_content = ResolveChunk(a, i)

\* C18: for the same texts, the same embeddings and the same query, the
\* chunk path's results turned into documents and the enhanced path's
\* documents end alike and have the same length and, position by position,
\* the same row id, content and similarity.
C18_Interchangeable ==
    (last.op = "_search_chunks") =>
        \A b \in Instances :
            SameCorpus(store[last.inst], store[b]) =>
                LET e == SearchWithDocstoreCall(store[b], Val(last.query), last.top_k)
                IN  /\ e.outcome = last.outcome
                    /\ Len(e.result) = Len(last.result)
                    /\ \A j \in DOMAIN last.result :
                          LET c == ChunkDocument(last.result[j])
                          IN  /\ last.result[j].chunk_id = e.result[j].metadata["retrieval_index"]
                              /\ c.page_content = e.result[j].page_content
                              /\ c.metadata["similarity"] = e.result[j].metadata["similarity"]

\* The chunk path returned two candidates on a store built by
\* create_vector_store while the other instance holds the same two texts
\* and embeddings in a docstore.
C18_Witness ==
    /\ last.op = "_search_chunks"
    /\ last.outcome = "ok"
    /\ Len(last.result) = 2
    /\ IsNone(store[last.inst].docstore)
    /\ \E b \in Instances \ {last.inst} : SameCorpus(store[last.inst], store[b])

====
